---- MODULE Spec2Model ----
(***************************************************************************)
(* Card sandbox (src/main.py): a Deck of 52 Card objects, the cards on the *)
(* table, the held card and its drag offset, driven by pointer events.     *)
(*                                                                         *)
(* A Card object is identified by the index at which Deck._generate        *)
(* created it (Python object identity); `card` is the heap holding the     *)
(* attributes of every Card object.  None is modelled as 0.                *)
(***************************************************************************)
EXTENDS Integers, Sequences, FiniteSets, TLC

VARIABLES
    card,            \* heap: Card object id -> its attributes (Card.__init__)
    deck,            \* Deck.cards: sequence of Card ids, last = popped next
    cards_on_table,  \* Game.cards_on_table: sequence of Card ids, last = topmost
    held_card,       \* Game.held_card: Card id, or None
    drag_offset,     \* Game.drag_offset: <<dx, dy>>
    ev,              \* the event handled last (or the call made last)
    pre,             \* the session as it was just before that event
    grab,            \* observer: where the held card was picked up / last moved
    flips,           \* observer: the current run of secondary presses at one point
    returned,        \* observer: the values returned by the draw_card calls
    loop,            \* Game.run: its position, its local `running`, the batch in hand
    nEvents          \* number of events delivered so far

vars == <<card, deck, cards_on_table, held_card, drag_offset,
          ev, pre, grab, flips, returned, loop, nEvents>>

----------------------------------------------------------------------------
(* Constants of src/main.py *)

CARD_WIDTH == 80
CARD_HEIGHT == 120
DECK_POS == <<30, 30>>
None == 0

(* Bounds of the model *)

MaxEvents == 5      \* pointer events delivered in one explored session
NumSeeds == 3       \* shuffle outcomes explored
MaxCalls == 55      \* draw_card calls made on one deck (more than 52)
LateDraws == 50     \* draws already made when a late session is taken up
MaxLateEvents == 3  \* pointer events delivered after a late session is taken up
MaxFrames == 2      \* iterations of the main loop
MaxBatch == 2       \* events returned by one pygame.event.get()

(* Pointer coordinates delivered with the events: three inside the deck      *)
(* region, three outside it.                                               *)
Points == { <<70, 90>>, <<100, 120>>, <<130, 150>>,
            <<400, 300>>, <<430, 340>>, <<700, 600>> }
(* Pointer coordinates delivered with the release events, which            *)
(* handle_mouse_up does not read: one over the deck, one far from it.       *)
ReleasePoints == { <<70, 90>>, <<700, 600>> }
Buttons == {1, 2, 3}

----------------------------------------------------------------------------
(* Deck._generate: for each suit, for each rank, one Card *)

suits == << [suit_char |-> "spade",   suit_color |-> "black"],
            [suit_char |-> "club",    suit_color |-> "black"],
            [suit_char |-> "heart",   suit_color |-> "red"],
            [suit_char |-> "diamond", suit_color |-> "red"] >>

ranks == <<"A", "2", "3", "4", "5", "6", "7", "8", "9", "10", "J", "Q", "K">>

(* Card.__init__: face down, rect = image.get_rect() = (0, 0, 80, 120) *)
Card(rank, suit_char, suit_color) ==
    [rank |-> rank, suit_char |-> suit_char, suit_color |-> suit_color,
     is_flipped |-> FALSE, x |-> 0, y |-> 0]

(* the heap after _generate: object k is the k-th Card created *)
generate ==
    [k \in 1..(Len(suits) * Len(ranks)) |->
        LET s == suits[((k - 1) \div Len(ranks)) + 1]
            r == ranks[((k - 1) % Len(ranks)) + 1]
        IN  Card(r, s.suit_char, s.suit_color)]

(* the list _generate returns: the objects in creation order *)
generated_list == [k \in 1..(Len(suits) * Len(ranks)) |-> k]

(* the value the random generator yields for randbelow(n) at step i of the  *)
(* shuffle, in run number seed                                             *)
randbelow(seed, i, n) == ((seed + 2) * (i + 3) * 7 + seed * i * i) % n

(* swap with the second assignment lost *)
swap_overwrite(s, i, j) == [s EXCEPT ![i] = s[j]]

swap(s, i, j) == [s EXCEPT ![i] = s[j], ![j] = s[i]]

(* random.shuffle: for i in reversed(range(1, len(x))):                    *)
(*                     j = randbelow(i + 1); x[i], x[j] = x[j], x[i]       *)
(* (0-based i, j in Python; 1-based positions i+1, j+1 here)               *)
RECURSIVE shuffle_from(_, _, _)
shuffle_from(s, i, seed) ==
    IF i < 1 THEN s
    ELSE shuffle_from(swap(s, i + 1, randbelow(seed, i, i + 1) + 1), i - 1, seed)

shuffle(s, seed) == shuffle_from(s, Len(s) - 1, seed)

(* draw_card that returns the last card without removing it *)
draw_card_peek(cards) ==
    IF Len(cards) > 0
    THEN [result |-> cards[Len(cards)], cards |-> cards]
    ELSE [result |-> None, cards |-> cards]

(* Deck.draw_card: pop the last element, or None *)
draw_card(cards) ==
    IF Len(cards) > 0
    THEN [result |-> cards[Len(cards)], cards |-> SubSeq(cards, 1, Len(cards) - 1)]
    ELSE [result |-> None, cards |-> cards]

(* Deck.draw: the card whose back image is blitted at deck_rect *)
deck_drawn_card(cards) == IF Len(cards) > 0 THEN cards[1] ELSE None

----------------------------------------------------------------------------
(* pygame.Rect.collidepoint for a CARD_WIDTH x CARD_HEIGHT rect at (x, y) *)
collidepoint(x, y, pos) ==
    /\ x <= pos[1] /\ pos[1] < x + CARD_WIDTH
    /\ y <= pos[2] /\ pos[2] < y + CARD_HEIGHT

deck_rect_collidepoint(pos) == collidepoint(DECK_POS[1], DECK_POS[2], pos)

(* the session as one record *)
Session(c, d, t, h, o) ==
    [card |-> c, deck |-> d, cards_on_table |-> t, held_card |-> h, drag_offset |-> o]

Game == Session(card, deck, cards_on_table, held_card, drag_offset)

(* for card in reversed(cards_on_table): if card.rect.collidepoint(pos)    *)
(* position of the first hit scanning from position i down, 0 if none      *)
RECURSIVE first_hit(_, _, _)
first_hit(g, i, pos) ==
    IF i = 0 THEN 0
    ELSE IF collidepoint(g.card[g.cards_on_table[i]].x, g.card[g.cards_on_table[i]].y, pos)
         THEN i
         ELSE first_hit(g, i - 1, pos)

(* the scan run in list order: the earliest card containing pos *)
RECURSIVE first_hit_forward(_, _, _)
first_hit_forward(g, i, pos) ==
    IF i > Len(g.cards_on_table) THEN 0
    ELSE IF collidepoint(g.card[g.cards_on_table[i]].x, g.card[g.cards_on_table[i]].y, pos)
         THEN i
         ELSE first_hit_forward(g, i + 1, pos)

hit_forward(g, pos) == first_hit_forward(g, 1, pos)

hit(g, pos) == first_hit(g, Len(g.cards_on_table), pos)

(* list.remove(c): delete the first element equal to c *)
RECURSIVE index_of(_, _, _)
index_of(s, c, i) ==
    IF i > Len(s) THEN 0 ELSE IF s[i] = c THEN i ELSE index_of(s, c, i + 1)

list_remove(s, c) ==
    LET i == index_of(s, c, 1)
    IN  SubSeq(s, 1, i - 1) \o SubSeq(s, i + 1, Len(s))

(* flip that turns the card face up instead of toggling *)
flip_up(c) == [c EXCEPT !.is_flipped = TRUE]

(* Card.flip *)
flip(c) == [c EXCEPT !.is_flipped = ~c.is_flipped]

(* rect.topleft = pos instead of rect.center = pos *)
set_topleft(c, pos) == [c EXCEPT !.x = pos[1], !.y = pos[2]]

(* rect.center = pos for a CARD_WIDTH x CARD_HEIGHT rect *)
set_center(c, pos) ==
    [c EXCEPT !.x = pos[1] - (CARD_WIDTH \div 2), !.y = pos[2] - (CARD_HEIGHT \div 2)]

(* the draw with the card left in the deck *)
draw_from_deck_kept(g, pos) ==
    LET d == draw_card(g.deck)
        new_card == d.result
    IN  IF new_card # None
        THEN LET placed == set_center(g.card[new_card], pos)
             IN  [g EXCEPT !.card = [g.card EXCEPT ![new_card] = placed],
                           !.cards_on_table = Append(g.cards_on_table, new_card),
                           !.held_card = new_card,
                           !.drag_offset = <<pos[1] - placed.x, pos[2] - placed.y>>]
        ELSE g

(* Game.handle_mouse_down, button 1 inside deck_rect *)
draw_from_deck(g, pos) ==
    LET d == draw_card(g.deck)
        new_card == d.result
    IN  IF new_card # None
        THEN LET placed == set_center(g.card[new_card], pos)
             IN  [g EXCEPT !.deck = d.cards,
                           !.card = [g.card EXCEPT ![new_card] = placed],
                           !.cards_on_table = Append(g.cards_on_table, new_card),
                           !.held_card = new_card,
                           !.drag_offset = <<pos[1] - placed.x, pos[2] - placed.y>>]
        ELSE g

(* the pick-up with the append after the remove lost *)
pick_up_no_append(g, pos) ==
    LET i == hit(g, pos)
    IN  IF i = 0 THEN g
        ELSE LET c == g.cards_on_table[i]
             IN  [g EXCEPT !.held_card = c,
                           !.cards_on_table = list_remove(g.cards_on_table, c),
                           !.drag_offset = <<pos[1] - g.card[c].x, pos[2] - g.card[c].y>>]

(* the pick-up that lets go of the held card when the press hits nothing *)
pick_up_miss_releases(g, pos) ==
    LET i == hit(g, pos)
    IN  IF i = 0 THEN [g EXCEPT !.held_card = None]
        ELSE LET c == g.cards_on_table[i]
             IN  [g EXCEPT !.held_card = c,
                           !.cards_on_table = Append(list_remove(g.cards_on_table, c), c),
                           !.drag_offset = <<pos[1] - g.card[c].x, pos[2] - g.card[c].y>>]

(* the pick-up without the remove and append: the card stays where it is   *)
(* in the list                                                             *)
pick_up_no_promote(g, pos) ==
    LET i == hit(g, pos)
    IN  IF i = 0 THEN g
        ELSE LET c == g.cards_on_table[i]
             IN  [g EXCEPT !.held_card = c,
                           !.drag_offset = <<pos[1] - g.card[c].x, pos[2] - g.card[c].y>>]

(* the pick-up with the offset taken the other way round *)
pick_up_negated_offset(g, pos) ==
    LET i == hit(g, pos)
    IN  IF i = 0 THEN g
        ELSE LET c == g.cards_on_table[i]
             IN  [g EXCEPT !.held_card = c,
                           !.cards_on_table = Append(list_remove(g.cards_on_table, c), c),
                           !.drag_offset = <<g.card[c].x - pos[1], g.card[c].y - pos[2]>>]

(* Game.handle_mouse_down, button 1 outside deck_rect *)
pick_up(g, pos) ==
    LET i == hit(g, pos)
    IN  IF i = 0 THEN g
        ELSE LET c == g.cards_on_table[i]
             IN  [g EXCEPT !.held_card = c,
                           !.cards_on_table = Append(list_remove(g.cards_on_table, c), c),
                           !.drag_offset = <<pos[1] - g.card[c].x, pos[2] - g.card[c].y>>]

(* the flip loop without its break: every card under pos is flipped *)
flip_at_all(g, pos) ==
    [g EXCEPT !.card =
        [c \in DOMAIN g.card |->
            IF /\ c \in {g.cards_on_table[i] : i \in 1..Len(g.cards_on_table)}
               /\ collidepoint(g.card[c].x, g.card[c].y, pos)
            THEN flip(g.card[c]) ELSE g.card[c]]]

(* Game.handle_mouse_down, button 3 *)
flip_at(g, pos) ==
    LET i == hit(g, pos)
    IN  IF i = 0 THEN g
        ELSE LET c == g.cards_on_table[i]
             IN  [g EXCEPT !.card = [g.card EXCEPT ![c] = flip(g.card[c])]]

(* the table cards tested before the deck region *)
handle_mouse_down_table_first(g, button, pos) ==
    IF button = 1
    THEN IF hit(g, pos) # 0 THEN pick_up(g, pos)
         ELSE IF deck_rect_collidepoint(pos) THEN draw_from_deck(g, pos) ELSE g
    ELSE IF button = 3 THEN flip_at(g, pos)
    ELSE g

(* the return placed inside `if new_card:`: a press on the empty deck goes  *)
(* on to the table cards                                                   *)
handle_mouse_down_fallthrough(g, button, pos) ==
    IF button = 1
    THEN IF deck_rect_collidepoint(pos) /\ Len(g.deck) > 0
         THEN draw_from_deck(g, pos) ELSE pick_up(g, pos)
    ELSE IF button = 3 THEN flip_at(g, pos)
    ELSE g

handle_mouse_down(g, button, pos) ==
    IF button = 1
    THEN IF deck_rect_collidepoint(pos) THEN draw_from_deck(g, pos) ELSE pick_up(g, pos)
    ELSE IF button = 3 THEN flip_at(g, pos)
    ELSE g

(* the release bound to the secondary button *)
handle_mouse_up_secondary(g, button) ==
    IF button = 3 THEN [g EXCEPT !.held_card = None] ELSE g

(* Game.handle_mouse_up *)
handle_mouse_up(g, button) ==
    IF button = 1 THEN [g EXCEPT !.held_card = None] ELSE g

(* the move that ignores the drag offset *)
handle_mouse_motion_no_offset(g, pos) ==
    IF g.held_card # None
    THEN [g EXCEPT !.card = [g.card EXCEPT ![g.held_card] =
                        [@ EXCEPT !.x = pos[1], !.y = pos[2]]]]
    ELSE g

(* the move that drags the topmost table card when no card is held *)
handle_mouse_motion_top(g, pos) ==
    LET c == IF g.held_card # None THEN g.held_card
             ELSE IF Len(g.cards_on_table) > 0
                  THEN g.cards_on_table[Len(g.cards_on_table)] ELSE None
    IN  IF c # None
        THEN [g EXCEPT !.card = [g.card EXCEPT ![c] =
                        [@ EXCEPT !.x = pos[1] - g.drag_offset[1],
                                  !.y = pos[2] - g.drag_offset[2]]]]
        ELSE g

(* Game.handle_mouse_motion *)
handle_mouse_motion(g, pos) ==
    IF g.held_card # None
    THEN [g EXCEPT !.card = [g.card EXCEPT ![g.held_card] =
                        [@ EXCEPT !.x = pos[1] - g.drag_offset[1],
                                  !.y = pos[2] - g.drag_offset[2]]]]
    ELSE g

(* Game.draw: the draw calls of one render pass, in order *)
draw_calls(g) ==
    <<[call |-> "deck.draw", card |-> deck_drawn_card(g.deck)]>>
    \o [i \in 1..Len(g.cards_on_table) |->
            [call |-> "card.draw", card |-> g.cards_on_table[i]]]
    \o (IF g.held_card # None
        THEN <<[call |-> "card.draw_highlight", card |-> g.held_card]>>
        ELSE <<>>)

----------------------------------------------------------------------------
(* The session *)

NoEvent == [type |-> "none", button |-> 0, pos |-> <<0, 0>>]
NoGrab == [card |-> None, P |-> <<0, 0>>, O |-> <<0, 0>>, last |-> <<0, 0>>]
NoFlips == [n |-> 0, pos |-> <<0, 0>>, before |-> <<>>]

(* Game.run before its first iteration: running = True, nothing polled yet. *)
(* pc is "while" at the loop test, "for" inside the event loop, "done" after *)
(* the loop; frame, renders, polled, handled, quit_frame, after_quit count   *)
(* what the loop has done.                                                  *)
LoopStart ==
    [pc |-> "while", running |-> TRUE, batch |-> <<>>,
     frame |-> 0, renders |-> 0, polled |-> 0, handled |-> 0,
     quit_frame |-> 0, after_quit |-> 0]

(* Game.__init__ / Deck.__init__ *)
Init ==
    /\ card = generate
    /\ \E seed \in 1..NumSeeds : deck = shuffle(generated_list, seed)
    /\ cards_on_table = <<>>
    /\ held_card = None
    /\ drag_offset = <<0, 0>>
    /\ ev = NoEvent
    /\ pre = Game
    /\ grab = NoGrab
    /\ flips = NoFlips
    /\ returned = <<>>
    /\ loop = LoopStart
    /\ nEvents = 0

Becomes(g) ==
    /\ card' = g.card
    /\ deck' = g.deck
    /\ cards_on_table' = g.cards_on_table
    /\ held_card' = g.held_card
    /\ drag_offset' = g.drag_offset

(* the position of the card's box origin in session g *)
origin(g, c) == <<g.card[c].x, g.card[c].y>>

(* a button-1 press that takes a card: a draw from a non-empty deck or a    *)
(* hit on a table card outside the deck region                             *)
takes_card(g, button, pos) ==
    /\ button = 1
    /\ IF deck_rect_collidepoint(pos) THEN Len(g.deck) > 0 ELSE hit(g, pos) # 0

MouseButtonDown ==
    /\ nEvents < MaxEvents
    /\ \E button \in Buttons, pos \in Points :
         LET g == handle_mouse_down(Game, button, pos)
         IN  /\ Becomes(g)
             /\ ev' = [type |-> "down", button |-> button, pos |-> pos]
             /\ grab' = IF takes_card(Game, button, pos)
                        THEN [card |-> g.held_card, P |-> pos,
                              O |-> origin(g, g.held_card), last |-> pos]
                        ELSE grab
             /\ flips' = IF button # 3 THEN NoFlips
                         ELSE IF ev.type = "down" /\ ev.button = 3 /\ ev.pos = pos
                              THEN [flips EXCEPT !.n = flips.n + 1]
                              ELSE [n |-> 1, pos |-> pos, before |-> Game]
    /\ pre' = Game
    /\ nEvents' = nEvents + 1
    /\ UNCHANGED <<returned, loop>>

MouseButtonUp ==
    /\ nEvents < MaxEvents
    /\ \E button \in Buttons, pos \in ReleasePoints :
         /\ Becomes(handle_mouse_up(Game, button))
         /\ ev' = [type |-> "up", button |-> button, pos |-> pos]
    /\ pre' = Game
    /\ nEvents' = nEvents + 1
    /\ flips' = NoFlips
    /\ UNCHANGED <<grab, returned, loop>>

MouseMotion ==
    /\ nEvents < MaxEvents
    /\ \E pos \in Points :
         /\ Becomes(handle_mouse_motion(Game, pos))
         /\ ev' = [type |-> "motion", button |-> 0, pos |-> pos]
         /\ grab' = IF held_card # None /\ held_card = grab.card
                    THEN [grab EXCEPT !.last = pos] ELSE grab
    /\ pre' = Game
    /\ nEvents' = nEvents + 1
    /\ flips' = NoFlips
    /\ UNCHANGED <<returned, loop>>

Next == MouseButtonDown \/ MouseButtonUp \/ MouseMotion

Spec == Init /\ [][Next]_vars

(* A late session: the session as LateDraws (or one more) primary presses  *)
(* on the deck,                                                            *)
(* alternating between two points of the deck region, leave it; the        *)
(* pointer events then go on from there.                                   *)
DrawPoint(n) == IF n % 2 = 1 THEN <<70, 90>> ELSE <<100, 120>>

(* presses number k .. n applied to g, one after the other *)
RECURSIVE deck_presses(_, _, _)
deck_presses(g, k, n) ==
    IF k > n THEN g
    ELSE LET h == handle_mouse_down(g, 1, DrawPoint(k))
         IN  \* the test has h evaluated before the next press is applied
             IF h = h THEN deck_presses(h, k + 1, n) ELSE g

InitLate ==
    \E seed \in 1..NumSeeds, n \in {LateDraws, LateDraws + 1} :
        LET g0 == Session(generate, shuffle(generated_list, seed), <<>>, None, <<0, 0>>)
            gp == deck_presses(g0, 1, n - 1)
            g  == handle_mouse_down(gp, 1, DrawPoint(n))
        IN  /\ card = g.card
            /\ deck = g.deck
            /\ cards_on_table = g.cards_on_table
            /\ held_card = g.held_card
            /\ drag_offset = g.drag_offset
            /\ ev = [type |-> "down", button |-> 1, pos |-> DrawPoint(n)]
            /\ pre = gp
            /\ grab = [card |-> g.held_card, P |-> DrawPoint(n),
                       O |-> origin(g, g.held_card), last |-> DrawPoint(n)]
            /\ flips = NoFlips
            /\ returned = <<>>
            /\ loop = LoopStart
            /\ nEvents = MaxEvents - MaxLateEvents

SpecLate == InitLate /\ [][Next]_vars

(* Game.run: the main loop *)

QuitEvent == [type |-> "quit", button |-> 0, pos |-> <<0, 0>>]

(* the events pygame.event.get() may return in the explored runs *)
RunEvents ==
    { QuitEvent,
      [type |-> "down", button |-> 1, pos |-> <<70, 90>>],
      [type |-> "motion", button |-> 0, pos |-> <<400, 300>>],
      [type |-> "up", button |-> 1, pos |-> <<400, 300>>] }

Batches == UNION {[1..n -> RunEvents] : n \in 0..MaxBatch}

(* the loop leaving at once on QUIT, as with a break or an exit there *)
on_quit_exit(l) == [l EXCEPT !.running = FALSE, !.pc = "done", !.batch = <<>>]

(* if event.type == pygame.QUIT: running = False *)
on_quit(l) == [l EXCEPT !.running = FALSE]

(* the body of the for loop for one event: the handler its type selects *)
dispatch(g, e) ==
    IF e.type = "down" THEN handle_mouse_down(g, e.button, e.pos)
    ELSE IF e.type = "up" THEN handle_mouse_up(g, e.button)
    ELSE IF e.type = "motion" THEN handle_mouse_motion(g, e.pos)
    ELSE g

(* while running: for event in pygame.event.get() *)
PollEvents ==
    /\ loop.pc = "while" /\ loop.running
    /\ loop.frame < MaxFrames
    /\ \E b \in Batches :
         loop' = [loop EXCEPT !.pc = "for", !.batch = b, !.frame = @ + 1,
                              !.polled = Len(b), !.handled = 0]
    /\ UNCHANGED <<card, deck, cards_on_table, held_card, drag_offset,
                   ev, pre, grab, flips, returned, nEvents>>

(* one pass through the body of the for loop *)
DispatchEvent ==
    /\ loop.pc = "for" /\ loop.batch # <<>>
    /\ LET e == Head(loop.batch)
           l == IF e.type = "quit" THEN on_quit(loop) ELSE loop
       IN  /\ loop' = [l EXCEPT !.batch = IF l.pc = "for" THEN Tail(loop.batch) ELSE l.batch,
                                !.handled = @ + 1,
                                !.quit_frame = IF e.type = "quit" /\ @ = 0 THEN loop.frame ELSE @,
                                !.after_quit = IF loop.quit_frame # 0 THEN @ + 1 ELSE @]
           /\ Becomes(dispatch(Game, e))
           /\ ev' = e
    /\ pre' = Game
    /\ UNCHANGED <<grab, flips, returned, nEvents>>

(* self.draw(); pygame.display.flip(); self.clock.tick(60) *)
Render ==
    /\ loop.pc = "for" /\ loop.batch = <<>>
    /\ loop' = [loop EXCEPT !.pc = "while", !.renders = @ + 1]
    /\ UNCHANGED <<card, deck, cards_on_table, held_card, drag_offset,
                   ev, pre, grab, flips, returned, nEvents>>

(* the loop test failing: pygame.quit(); sys.exit() *)
Exit ==
    /\ loop.pc = "while" /\ ~loop.running
    /\ loop' = [loop EXCEPT !.pc = "done"]
    /\ UNCHANGED <<card, deck, cards_on_table, held_card, drag_offset,
                   ev, pre, grab, flips, returned, nEvents>>

NextRun == PollEvents \/ DispatchEvent \/ Render \/ Exit

(* the loop runs on one thread and no step of it blocks *)
SpecRun ==
    /\ Init /\ [][NextRun]_vars
    /\ WF_vars(DispatchEvent) /\ WF_vars(Render) /\ WF_vars(Exit)

(* A fresh deck on which draw_card is called over and over *)
DrawCardCall ==
    /\ Len(returned) < MaxCalls
    /\ LET d == draw_card(deck)
       IN  /\ deck' = d.cards
           /\ returned' = Append(returned, d.result)
    /\ ev' = [type |-> "draw_card", button |-> 0, pos |-> <<0, 0>>]
    /\ pre' = Game
    /\ UNCHANGED <<card, cards_on_table, held_card, drag_offset, grab, flips, loop, nEvents>>

NextDraw == DrawCardCall

SpecDraw == Init /\ [][NextDraw]_vars

----------------------------------------------------------------------------
(* Properties *)

Range(s) == {s[i] : i \in 1..Len(s)}

(* positions of the in-play cards of g whose box contains pos *)
Containing(g, pos) ==
    {i \in 1..Len(g.cards_on_table) :
        LET c == g.card[g.cards_on_table[i]]
        IN  /\ c.x <= pos[1] /\ pos[1] < c.x + 80
            /\ c.y <= pos[2] /\ pos[2] < c.y + 120}

Latest(S) == CHOOSE i \in S : \A j \in S : j <= i

InDeckRegion(pos) ==
    /\ 30 <= pos[1] /\ pos[1] < 110
    /\ 30 <= pos[2] /\ pos[2] < 150

(* C1: in every state reachable by pointer events, the held-card reference *)
(* is null or refers to a card that is an element of the in-play sequence. *)
C1_HeldCardInPlay ==
    held_card = None \/ held_card \in Range(cards_on_table)

C1_Witness ==
    /\ held_card # None
    /\ ev.type = "down" /\ ev.button = 1 /\ ~InDeckRegion(ev.pos)
    /\ Len(cards_on_table) >= 2
    /\ pre.cards_on_table # cards_on_table

(* C2: the deck and the in-play sequence partition the 52 cards, without    *)
(* duplicates; the sizes add up to 52; the deck never grows; a card that    *)
(* is in play stays in play and never returns to the deck.                 *)
C2_Partition ==
    /\ Range(deck) \cup Range(cards_on_table) = 1..52
    /\ Range(deck) \cap Range(cards_on_table) = {}
    /\ Cardinality(Range(deck)) = Len(deck)
    /\ Cardinality(Range(cards_on_table)) = Len(cards_on_table)
    /\ Len(deck) + Len(cards_on_table) = 52
    /\ Len(deck) <= Len(pre.deck)
    /\ Range(pre.cards_on_table) \subseteq Range(cards_on_table)
    /\ Range(deck) \subseteq Range(pre.deck)

C2_Witness ==
    /\ Len(cards_on_table) >= 3
    /\ Len(deck) < Len(pre.deck)
    /\ pre.held_card # None

(* C3: on a fresh deck, the first 52 draw_card calls return 52 pairwise     *)
(* distinct cards, each one shrinking the deck by exactly 1; every later    *)
(* call returns None and leaves the deck as it is.                         *)
C3_DrawMonotonic ==
    LET n == Len(returned)
        m == IF n < 52 THEN n ELSE 52
    IN  /\ \A i \in 1..m : returned[i] \in 1..52
        /\ \A i, j \in 1..m : i # j => returned[i] # returned[j]
        /\ \A i \in 53..n : returned[i] = None
        /\ Len(deck) = 52 - m
        /\ (n >= 1 /\ n <= 52) => /\ Len(deck) = Len(pre.deck) - 1
                                  /\ returned[n] \notin Range(deck)
                                  /\ returned[n] \in Range(pre.deck)
        /\ n > 52 => deck = pre.deck

C3_Witness ==
    /\ Len(returned) = 54
    /\ returned[52] # None
    /\ returned[53] = None

(* C4: for every shuffle outcome the deck at session start holds exactly 52 *)
(* cards, one per (rank, suit) pair of 13 ranks x 4 suits, none repeated,   *)
(* all face-down; the shuffled deck is a reordering of the generated list.  *)
C4_FreshDeck ==
    nEvents = 0 /\ returned = <<>> =>
        /\ Len(deck) = 52
        /\ Cardinality(Range(deck)) = 52
        /\ Cardinality(Range(ranks)) = 13
        /\ Cardinality({suits[i].suit_char : i \in 1..Len(suits)}) = 4
        /\ {<<card[c].rank, card[c].suit_char>> : c \in Range(deck)}
             = Range(ranks) \X {suits[i].suit_char : i \in 1..Len(suits)}
        /\ \A c \in Range(deck) : card[c].is_flipped = FALSE
        /\ Range(deck) = Range(generated_list)
        /\ Len(deck) = Len(generated_list)

C4_Witness ==
    /\ nEvents = 0 /\ returned = <<>>
    /\ deck # generated_list
    /\ deck[52] # 52

(* C5: a primary press at P inside the deck region with a non-empty deck    *)
(* removes the next card from the deck, appends it to the in-play sequence, *)
(* centers its box at P, leaves it face-down, holds it, and records         *)
(* offset = P - new origin; no other card changes.                         *)
C5_DrawFromDeck ==
    (ev.type = "down" /\ ev.button = 1 /\ InDeckRegion(ev.pos) /\ Len(pre.deck) > 0) =>
        LET c == pre.deck[Len(pre.deck)]
        IN  /\ deck = SubSeq(pre.deck, 1, Len(pre.deck) - 1)
            /\ Len(deck) = Len(pre.deck) - 1
            /\ cards_on_table = Append(pre.cards_on_table, c)
            /\ 2 * card[c].x + 80 = 2 * ev.pos[1]
            /\ 2 * card[c].y + 120 = 2 * ev.pos[2]
            /\ card[c].is_flipped = FALSE
            /\ held_card = c
            /\ drag_offset = <<ev.pos[1] - card[c].x, ev.pos[2] - card[c].y>>
            /\ \A d \in DOMAIN card : d # c => card[d] = pre.card[d]
            /\ card[c].rank = pre.card[c].rank
            /\ card[c].suit_char = pre.card[c].suit_char

C5_Witness ==
    /\ ev.type = "down" /\ ev.button = 1 /\ InDeckRegion(ev.pos)
    /\ Len(pre.deck) > 0
    /\ pre.held_card # None
    /\ Containing(pre, ev.pos) # {}
    /\ \E i \in 1..Len(pre.cards_on_table) : card[pre.cards_on_table[i]].is_flipped

(* C6: a primary press outside the deck region inside some in-play box      *)
(* picks the latest in-play card containing the point, moves it to the end  *)
(* keeping the order of the others, holds it, records offset = P - origin;  *)
(* no position or flag changes and the deck is unchanged.                  *)
C6_PickUp ==
    (ev.type = "down" /\ ev.button = 1 /\ ~InDeckRegion(ev.pos)
        /\ Containing(pre, ev.pos) # {}) =>
        LET i == Latest(Containing(pre, ev.pos))
            c == pre.cards_on_table[i]
            t == pre.cards_on_table
        IN  /\ cards_on_table = SubSeq(t, 1, i - 1) \o SubSeq(t, i + 1, Len(t)) \o <<c>>
            /\ held_card = c
            /\ drag_offset = <<ev.pos[1] - pre.card[c].x, ev.pos[2] - pre.card[c].y>>
            /\ card = pre.card
            /\ deck = pre.deck

C6_Witness ==
    /\ ev.type = "down" /\ ev.button = 1 /\ ~InDeckRegion(ev.pos)
    /\ Cardinality(Containing(pre, ev.pos)) >= 2
    /\ Latest(Containing(pre, ev.pos)) < Len(pre.cards_on_table)

(* C7: a card taken at P with origin O has offset P - O; every pointer-move *)
(* to P2 while it is held puts its origin at P2 - (P - O); after take at P, *)
(* moves ending at P + d and release, the origin is O + d.                  *)
C7_DragConsistency ==
    /\ held_card # None =>
         /\ grab.card = held_card
         /\ drag_offset = <<grab.P[1] - grab.O[1], grab.P[2] - grab.O[2]>>
    /\ (ev.type = "motion" /\ held_card # None) =>
         /\ card[held_card].x = ev.pos[1] - (grab.P[1] - grab.O[1])
         /\ card[held_card].y = ev.pos[2] - (grab.P[2] - grab.O[2])
    /\ (ev.type = "up" /\ ev.button = 1 /\ pre.held_card # None) =>
         /\ card[pre.held_card].x = grab.O[1] + (grab.last[1] - grab.P[1])
         /\ card[pre.held_card].y = grab.O[2] + (grab.last[2] - grab.P[2])

C7_Witness ==
    /\ ev.type = "up" /\ ev.button = 1 /\ pre.held_card # None
    /\ grab.last[1] # grab.P[1] /\ grab.last[2] # grab.P[2]
    /\ <<grab.P[1] - grab.O[1], grab.P[2] - grab.O[2]>> # <<40, 60>>

(* C8: a primary release leaves the held-card reference null and changes    *)
(* nothing else; with no card held it changes nothing at all.               *)
C8_Release ==
    (ev.type = "up" /\ ev.button = 1) =>
        /\ held_card = None
        /\ card = pre.card
        /\ cards_on_table = pre.cards_on_table
        /\ deck = pre.deck
        /\ drag_offset = pre.drag_offset
        /\ pre.held_card = None => Game = pre

C8_Witness ==
    /\ ev.type = "up" /\ ev.button = 1
    /\ pre.held_card # None
    /\ ~(\E i \in Containing(pre, ev.pos) : pre.cards_on_table[i] = pre.held_card)
    /\ pre.drag_offset # <<40, 60>>

(* C9: a secondary press at P, whether or not a card is held, toggles the   *)
(* face-up flag of the latest in-play card whose box contains P and of no   *)
(* other card (of none if no box contains P); order, held card, offset,     *)
(* deck and positions are unchanged.                                       *)
C9_Flip ==
    (ev.type = "down" /\ ev.button = 3) =>
        /\ cards_on_table = pre.cards_on_table
        /\ held_card = pre.held_card
        /\ drag_offset = pre.drag_offset
        /\ deck = pre.deck
        /\ IF Containing(pre, ev.pos) = {}
           THEN card = pre.card
           ELSE LET c == pre.cards_on_table[Latest(Containing(pre, ev.pos))]
                IN  /\ card[c] = [pre.card[c] EXCEPT !.is_flipped = ~pre.card[c].is_flipped]
                    /\ \A d \in DOMAIN card : d # c => card[d] = pre.card[d]

C9_Witness ==
    /\ ev.type = "down" /\ ev.button = 3
    /\ pre.held_card # None
    /\ Cardinality(Containing(pre, ev.pos)) >= 2
    /\ pre.cards_on_table[Latest(Containing(pre, ev.pos))] # pre.held_card

(* C10: flipping a card twice restores it, and two consecutive secondary    *)
(* presses at the same point restore the whole session.                    *)
C10_FlipInvolution ==
    /\ \A c \in DOMAIN card : flip(flip(card[c])) = card[c]
    /\ \A c \in DOMAIN card : flip(card[c]) # card[c]
    /\ (flips.n > 0 /\ flips.n % 2 = 0) => Game = flips.before

C10_Witness ==
    /\ flips.n = 2
    /\ pre # Game
    /\ held_card # None

(* C11: a primary press inside the deck region while the deck is empty      *)
(* changes nothing at all, even when an in-play card's box contains the     *)
(* press point.                                                            *)
C11_EmptyDeckPress ==
    (ev.type = "down" /\ ev.button = 1 /\ InDeckRegion(ev.pos) /\ Len(pre.deck) = 0) =>
        /\ Game = pre
        /\ Len(cards_on_table) = 52

C11_Witness ==
    /\ ev.type = "down" /\ ev.button = 1 /\ InDeckRegion(ev.pos)
    /\ Len(pre.deck) = 0
    /\ Containing(pre, ev.pos) # {}
    /\ pre.held_card = None

(* C12: a primary press outside the deck region and outside every in-play   *)
(* box changes nothing; from Idle the held-card reference stays null.       *)
C12_MissPress ==
    (ev.type = "down" /\ ev.button = 1 /\ ~InDeckRegion(ev.pos)
        /\ Containing(pre, ev.pos) = {}) =>
        /\ Game = pre
        /\ pre.held_card = None => held_card = None

C12_Witness ==
    /\ ev.type = "down" /\ ev.button = 1 /\ ~InDeckRegion(ev.pos)
    /\ Containing(pre, ev.pos) = {}
    /\ Len(pre.cards_on_table) >= 2
    /\ pre.held_card = None

(* C13: whenever the deck is non-empty, the card whose back the deck's      *)
(* render draws is the card the next draw_card call removes and returns.    *)
C13_DeckShowsNextCard ==
    Len(deck) > 0 => deck_drawn_card(deck) = draw_card(deck).result

(* C14: whenever a card is held it is the last element of the in-play       *)
(* sequence, so the render pass draws it after every other card and its     *)
(* highlight last of all.                                                  *)
C14_HeldCardOnTop ==
    held_card # None =>
        LET calls == draw_calls(Game)
            n == Len(calls)
        IN  /\ Len(cards_on_table) > 0
            /\ cards_on_table[Len(cards_on_table)] = held_card
            /\ n >= 3
            /\ calls[n] = [call |-> "card.draw_highlight", card |-> held_card]
            /\ calls[n - 1] = [call |-> "card.draw", card |-> held_card]
            /\ \A i \in 1..(n - 2) : calls[i].card # held_card

C14_Witness ==
    /\ held_card # None
    /\ Len(cards_on_table) >= 3
    /\ ev.type = "down" /\ ev.button = 1 /\ ~InDeckRegion(ev.pos)
    /\ pre.held_card # None /\ pre.held_card # held_card
    /\ pre.cards_on_table[1] = held_card

(* C15: a primary press inside the deck region and inside in-play boxes     *)
(* hit-tests no in-play card: none of them becomes the held card and their  *)
(* order is unchanged; with a non-empty deck the newly drawn card is held.  *)
C15_DeckFirst ==
    (ev.type = "down" /\ ev.button = 1 /\ InDeckRegion(ev.pos)
        /\ Containing(pre, ev.pos) # {}) =>
        /\ SubSeq(cards_on_table, 1, Len(pre.cards_on_table)) = pre.cards_on_table
        /\ held_card # pre.held_card => held_card \notin Range(pre.cards_on_table)
        /\ Len(pre.deck) > 0 =>
              /\ held_card = pre.deck[Len(pre.deck)]
              /\ cards_on_table = Append(pre.cards_on_table, held_card)
        /\ Len(pre.deck) = 0 =>
              /\ held_card = pre.held_card
              /\ cards_on_table = pre.cards_on_table

C15_Witness ==
    /\ ev.type = "down" /\ ev.button = 1 /\ InDeckRegion(ev.pos)
    /\ Cardinality(Containing(pre, ev.pos)) >= 2
    /\ Len(pre.deck) > 0
    /\ pre.held_card = None
    /\ nEvents > MaxEvents - MaxLateEvents

(* C16: a card's position changes only when it is placed by a draw or by a  *)
(* pointer-move while it is the held card; a pointer-move with no card held *)
(* changes nothing.                                                        *)
C16_PositionFrame ==
    /\ \A c \in DOMAIN card :
          (card[c].x # pre.card[c].x \/ card[c].y # pre.card[c].y) =>
              \/ /\ ev.type = "down" /\ ev.button = 1 /\ InDeckRegion(ev.pos)
                 /\ Len(pre.deck) > 0 /\ c = pre.deck[Len(pre.deck)]
                 /\ c = held_card
              \/ /\ ev.type = "motion"
                 /\ c = pre.held_card
    /\ (ev.type = "motion" /\ pre.held_card = None) => Game = pre

C16_Witness ==
    /\ ev.type = "motion"
    /\ pre.held_card # None
    /\ card[pre.held_card].x # pre.card[pre.held_card].x
    /\ card[pre.held_card].y # pre.card[pre.held_card].y
    /\ Cardinality(Containing(pre, <<pre.card[pre.held_card].x, pre.card[pre.held_card].y>>)) >= 2

(* C17: after a pointer-up event with any button the held-card reference    *)
(* is null.                                                                *)
C17_AnyRelease ==
    ev.type = "up" => held_card = None

(* C18: whenever a card is held the drag offset lies inside the card's box  *)
(* (0 <= dx < 80, 0 <= dy < 120), a draw from the deck records (40, 60),    *)
(* and after a pointer-move while dragging the pointer is inside the held   *)
(* card's box.                                                             *)
C18_OffsetInBox ==
    /\ held_card # None =>
          /\ 0 <= drag_offset[1] /\ drag_offset[1] < 80
          /\ 0 <= drag_offset[2] /\ drag_offset[2] < 120
    /\ (ev.type = "down" /\ ev.button = 1 /\ InDeckRegion(ev.pos) /\ Len(pre.deck) > 0) =>
          drag_offset = <<40, 60>>
    /\ (ev.type = "motion" /\ held_card # None) =>
          /\ card[held_card].x <= ev.pos[1] /\ ev.pos[1] < card[held_card].x + 80
          /\ card[held_card].y <= ev.pos[2] /\ ev.pos[2] < card[held_card].y + 120

C18_Witness ==
    /\ ev.type = "motion" /\ held_card # None
    /\ drag_offset # <<40, 60>>
    /\ card[held_card].x # pre.card[held_card].x

(* what the loop has done so far agrees with "quit ends the loop after the  *)
(* current frame, and only quit does"                                      *)
LoopSafe ==
    /\ loop.pc = "done" =>
          /\ loop.quit_frame # 0
          /\ loop.frame = loop.quit_frame
          /\ loop.handled = loop.polled
          /\ loop.batch = <<>>
          /\ loop.renders = loop.frame
    /\ ~loop.running => (loop.quit_frame # 0 /\ loop.frame = loop.quit_frame)
    /\ loop.quit_frame = 0 => (loop.running /\ loop.pc # "done")
    /\ loop.pc = "while" => loop.renders = loop.frame
    /\ loop.pc = "for" => loop.renders = loop.frame - 1

(* C19: once a quit signal is delivered the loop ends after the current     *)
(* frame: the rest of the batch is still dispatched, one more render pass   *)
(* is made, and no later batch is handled; without a quit signal the loop   *)
(* does not end, and it renders once per frame.                            *)
C19_QuitEndsLoop ==
    /\ []LoopSafe
    /\ (loop.quit_frame # 0) ~> (loop.pc = "done")

C19_Witness ==
    /\ loop.pc = "done"
    /\ loop.quit_frame = 2
    /\ loop.after_quit >= 1
    /\ ev.type = "down"
    /\ pre # Game

====
